---------------------------- MODULE Spec2Model ----------------------------
(***************************************************************************)
(* Reward scalers of d3rlpy (d3rlpy/preprocessing/reward_scalers.py):      *)
(* the four scaler classes, their fit / transform / reverse_transform /    *)
(* transform_numpy / get_params methods, and the REWARD_SCALER_LIST        *)
(* registry with register_reward_scaler and create_reward_scaler.          *)
(*                                                                         *)
(* Rewards and parameters are binary floating-point numbers.  A number is  *)
(* a record [k, m, e]: k = "fin" is the value m * 2^e (m odd, or m = 0 and *)
(* e = 0), k = "nan" and k = "inf" (m = 1 or -1) are the IEEE specials and *)
(* k = "none" is Python's None.  Every arithmetic operation rounds its     *)
(* exact result to Precision significant bits, ties to even, as IEEE 754   *)
(* does; the exponent range is not bounded (no value of the model is near  *)
(* overflow or underflow in any IEEE format).                              *)
(***************************************************************************)
EXTENDS Integers, Sequences, FiniteSets

\* ------------------------------------------------------------------------
\* Bounds of the model
\* ------------------------------------------------------------------------

\* significant bits of the floating-point format (53 in a Python float)
Precision == 5
\* episodes in a corpus handed to fit
MaxEpisodes == 2
\* rewards in one episode
MaxEpisodeLen == 3

\* ------------------------------------------------------------------------
\* Floating-point numbers
\* ------------------------------------------------------------------------

RECURSIVE Pow2(_)
Pow2(n) == IF n <= 0 THEN 1 ELSE 2 * Pow2(n - 1)

Abs(x) == IF x < 0 THEN -x ELSE x

Sgn(x) == IF x < 0 THEN -1 ELSE 1

None == [k |-> "none", m |-> 0, e |-> 0]

NaN == [k |-> "nan", m |-> 0, e |-> 0]

Inf(s) == [k |-> "inf", m |-> s, e |-> 0]

\* the finite number m * 2^e in canonical form (odd m)
RECURSIVE Fin(_, _)
Fin(m, e) ==
    IF m = 0 THEN [k |-> "fin", m |-> 0, e |-> 0]
    ELSE IF m % 2 = 0 THEN Fin(m \div 2, e + 1)
    ELSE [k |-> "fin", m |-> m, e |-> e]

Zero == Fin(0, 0)

One == Fin(1, 0)

IsNone(x) == x.k = "none"

IsFin(x) == x.k = "fin"

IsZero(x) == x.k = "fin" /\ x.m = 0

\* sign of a finite or infinite number, 0 for zero
SignOf(x) == IF x.m < 0 THEN -1 ELSE IF x.m > 0 THEN 1 ELSE 0

\* s * (n / d) * 2^e rounded to Precision significant bits, ties to even
\* (n >= 0, d > 0, s = 1 or -1)
RECURSIVE RoundRat(_, _, _, _)
RoundRat(s, n, d, e) ==
    IF n = 0 THEN Zero
    ELSE IF n < d * Pow2(Precision - 1) THEN RoundRat(s, 2 * n, d, e - 1)
    ELSE IF n >= d * Pow2(Precision) THEN RoundRat(s, n, 2 * d, e + 1)
    ELSE LET q == n \div d
             r == n % d
             up == 2 * r > d \/ (2 * r = d /\ q % 2 = 1)
         IN  Fin(s * (IF up THEN q + 1 ELSE q), e)

\* the exact (unrounded) sum and product of two finite numbers
ExactAdd(a, b) ==
    LET e == IF a.e < b.e THEN a.e ELSE b.e
    IN  Fin(a.m * Pow2(a.e - e) + b.m * Pow2(b.e - e), e)

ExactMul(a, b) == Fin(a.m * b.m, a.e + b.e)

Neg(a) == [a EXCEPT !.m = -a.m]

\* a finite number as the machine stores it
Round(a) == RoundRat(Sgn(a.m), Abs(a.m), 1, a.e)

Representable(a) == IsFin(a) /\ Round(a) = a

\* a + b
FAdd(a, b) ==
    IF a.k = "nan" \/ b.k = "nan" THEN NaN
    ELSE IF a.k = "inf" /\ b.k = "inf" THEN (IF a.m = b.m THEN a ELSE NaN)
    ELSE IF a.k = "inf" THEN a
    ELSE IF b.k = "inf" THEN b
    ELSE Round(ExactAdd(a, b))

\* a - b
FSub(a, b) == FAdd(a, Neg(b))

\* a * b
FMul(a, b) ==
    IF a.k = "nan" \/ b.k = "nan" THEN NaN
    ELSE IF a.k = "inf" \/ b.k = "inf"
         THEN (IF IsZero(a) \/ IsZero(b) THEN NaN ELSE Inf(SignOf(a) * SignOf(b)))
    ELSE Round(ExactMul(a, b))

\* a / b on arrays and tensors: a zero divisor gives inf or nan, no exception
FDiv(a, b) ==
    IF a.k = "nan" \/ b.k = "nan" THEN NaN
    ELSE IF a.k = "inf" THEN (IF b.k = "inf" THEN NaN
                              ELSE Inf(a.m * (IF b.m < 0 THEN -1 ELSE 1)))
    ELSE IF b.k = "inf" THEN Zero
    ELSE IF IsZero(b) THEN (IF IsZero(a) THEN NaN ELSE Inf(SignOf(a)))
    ELSE RoundRat(Sgn(a.m) * Sgn(b.m), Abs(a.m), Abs(b.m), a.e - b.e)

\* a < b on finite numbers
FLess(a, b) == SignOf(ExactAdd(a, Neg(b))) < 0

\* largest s with s * s <= n
RECURSIVE ISqrtFrom(_, _)
ISqrtFrom(n, s) == IF (s + 1) * (s + 1) > n THEN s ELSE ISqrtFrom(n, s + 1)

\* n scaled by a power of 4 until its root has more than Precision bits
RECURSIVE SqrtScaled(_, _)
SqrtScaled(n, e) ==
    IF n < Pow2(2 * Precision) THEN SqrtScaled(4 * n, e - 2)
    ELSE LET s == ISqrtFrom(n, Pow2(Precision))
             sticky == IF s * s = n THEN 0 ELSE 1
         IN  RoundRat(1, 2 * s + sticky, 2, e \div 2)

\* sqrt(a), correctly rounded
FSqrt(a) ==
    IF a.k = "nan" \/ SignOf(a) < 0 THEN NaN
    ELSE IF a.k = "inf" \/ IsZero(a) THEN a
    ELSE IF a.e % 2 = 0 THEN SqrtScaled(a.m, a.e)
    ELSE SqrtScaled(2 * a.m, a.e - 1)

\* ------------------------------------------------------------------------
\* numpy reductions used by fit
\* ------------------------------------------------------------------------

RECURSIVE NpMin(_)
NpMin(xs) ==
    IF Len(xs) = 1 THEN xs[1]
    ELSE LET rest == NpMin(Tail(xs))
         IN  IF FLess(rest, xs[1]) THEN rest ELSE xs[1]

RECURSIVE NpMax(_)
NpMax(xs) ==
    IF Len(xs) = 1 THEN xs[1]
    ELSE LET rest == NpMax(Tail(xs))
         IN  IF FLess(xs[1], rest) THEN rest ELSE xs[1]

\* acc + xs[i] + xs[i + step] + ... up to index hi
RECURSIVE SumStride(_, _, _, _, _)
SumStride(xs, acc, i, step, hi) ==
    IF i > hi THEN acc ELSE SumStride(xs, FAdd(acc, xs[i]), i + step, step, hi)

\* add.reduce of a float array: a plain loop below 8 elements, eight
\* interleaved partial sums combined pairwise from 8 elements on, the
\* elements past the last full block of 8 added at the end
NpSum(xs) ==
    LET n == Len(xs) IN
    IF n < 8 THEN SumStride(xs, Zero, 1, 1, n)
    ELSE LET full == n - (n % 8)
             r(j) == SumStride(xs, xs[j], j + 8, 8, full)
             res == FAdd(FAdd(FAdd(r(1), r(2)), FAdd(r(3), r(4))),
                         FAdd(FAdd(r(5), r(6)), FAdd(r(7), r(8))))
         IN  SumStride(xs, res, full + 1, 1, n)

\* the element count as a float
Count(xs) == Round(Fin(Len(xs), 0))

\* np.mean: nan (and a warning) on an empty list
NpMean(xs) == IF xs = <<>> THEN NaN ELSE FDiv(NpSum(xs), Count(xs))

\* np.std: sqrt(mean(|x - mean(x)|^2)), the population standard deviation
NpStd(xs) ==
    IF xs = <<>> THEN NaN
    ELSE LET arrmean == FDiv(NpSum(xs), Count(xs))
             sq == [i \in 1..Len(xs) |->
                        LET x == FSub(xs[i], arrmean) IN FMul(x, x)]
         IN  FSqrt(FDiv(NpSum(sq), Count(xs)))

\* Faulty variant: the slice [1:] forgotten, every reward collected
RECURSIVE NonFirstRewards_unsliced(_)
NonFirstRewards_unsliced(episodes) ==
    IF episodes = <<>> THEN <<>>
    ELSE Head(episodes) \o NonFirstRewards_unsliced(Tail(episodes))

\* rewards += episode.rewards[1:].tolist(), over the episodes in order
RECURSIVE NonFirstRewards(_)
NonFirstRewards(episodes) ==
    IF episodes = <<>> THEN <<>>
    ELSE (IF Head(episodes) = <<>> THEN <<>> ELSE Tail(Head(episodes)))
             \o NonFirstRewards(Tail(episodes))

\* Faulty variant: the upper bound not applied
Clamp_low_only(x, low, high) ==
    IF ~IsNone(low) /\ FLess(x, low) THEN low ELSE x

\* torch.clamp / np.clip: min(max(x, low), high), None for no bound
Clamp(x, low, high) ==
    LET lo == IF ~IsNone(low) /\ FLess(x, low) THEN low ELSE x
    IN  IF ~IsNone(high) /\ FLess(high, lo) THEN high ELSE lo

\* ------------------------------------------------------------------------
\* Scaler instances
\* ------------------------------------------------------------------------

\* the attributes of an instance; an attribute its class does not have is None
Instance(cls, multiplier, low, high, minimum, maximum, mean, std, eps) ==
    [cls |-> cls, multiplier |-> multiplier, low |-> low, high |-> high,
     minimum |-> minimum, maximum |-> maximum, mean |-> mean, std |-> std,
     eps |-> eps]

\* no instance has been constructed
NoScaler == Instance("absent", None, None, None, None, None, None, None, None)

\* what a call did: the instance after it, the exception it raised ("" for
\* none), whether LOG.warning was called, and the value it returned
Outcome(self, err, warned, ret) ==
    [self |-> self, err |-> err, warned |-> warned, ret |-> ret]

Returns(self, ret) == Outcome(self, "", FALSE, ret)

Raises(self, err) == Outcome(self, err, FALSE, None)

\* TYPE of each class
TYPE(cls) ==
    CASE cls = "RewardScaler" -> "none"
      [] cls = "MultiplyRewardScaler" -> "multiply"
      [] cls = "ClipRewardScaler" -> "clip"
      [] cls = "MinMaxRewardScaler" -> "min_max"
      [] cls = "StandardRewardScaler" -> "standard"
      \* a subclass of MinMaxRewardScaler that does not set TYPE inherits it
      [] cls = "MinMaxSubclass" -> "min_max"

\* ---- MultiplyRewardScaler ----

MultiplyRewardScaler_fit(self, episodes) ==
    Outcome(self, "", IsNone(self.multiplier), None)

MultiplyRewardScaler_transform(self, reward) ==
    IF IsNone(self.multiplier) THEN Raises(self, "TypeError")
    ELSE Returns(self, FMul(self.multiplier, reward))

MultiplyRewardScaler_reverse_transform(self, reward) ==
    IF IsNone(self.multiplier) THEN Raises(self, "TypeError")
    ELSE Returns(self, FDiv(reward, self.multiplier))

MultiplyRewardScaler_transform_numpy(self, reward) ==
    IF IsNone(self.multiplier) THEN Raises(self, "TypeError")
    ELSE Returns(self, FMul(self.multiplier, reward))

\* ---- ClipRewardScaler ----

\* Faulty variant: warns when either bound is missing
ClipRewardScaler_fit_either(self, episodes) ==
    Outcome(self, "", IsNone(self.low) \/ IsNone(self.high), None)

ClipRewardScaler_fit(self, episodes) ==
    Outcome(self, "", IsNone(self.low) /\ IsNone(self.high), None)

\* Tensor.clamp(None, None) raises
ClipRewardScaler_transform(self, reward) ==
    IF IsNone(self.low) /\ IsNone(self.high) THEN Raises(self, "RuntimeError")
    ELSE Returns(self, FMul(self.multiplier, Clamp(reward, self.low, self.high)))

ClipRewardScaler_reverse_transform(self, reward) ==
    Returns(self, FDiv(reward, self.multiplier))

\* np.clip(a, None, None) raises before numpy 2.1 and returns a unchanged
\* from 2.1 on: strict says which numpy runs
ClipRewardScaler_transform_numpy(self, reward, strict) ==
    IF IsNone(self.low) /\ IsNone(self.high) /\ strict THEN Raises(self, "ValueError")
    ELSE Returns(self, FMul(self.multiplier, Clamp(reward, self.low, self.high)))

\* ---- MinMaxRewardScaler ----

\* Faulty variant: no early return, fitted parameters are computed again
MinMaxRewardScaler_fit_again(self, episodes) ==
    LET rewards == NonFirstRewards(episodes) IN
    IF rewards = <<>> THEN Raises(self, "ValueError")
    ELSE Returns([self EXCEPT !.minimum = NpMin(rewards),
                              !.maximum = NpMax(rewards)], None)

MinMaxRewardScaler_fit(self, episodes) ==
    IF ~IsNone(self.minimum) /\ ~IsNone(self.maximum) THEN Returns(self, None)
    ELSE LET rewards == NonFirstRewards(episodes) IN
         \* np.min of an empty list raises
         IF rewards = <<>> THEN Raises(self, "ValueError")
         ELSE Returns([self EXCEPT !.minimum = NpMin(rewards),
                                   !.maximum = NpMax(rewards)], None)

\* Faulty variant: the assert is missing, the subtraction of None raises instead
MinMaxRewardScaler_transform_no_assert(self, reward) ==
    IF IsNone(self.minimum) \/ IsNone(self.maximum) THEN Raises(self, "TypeError")
    ELSE LET base == FSub(self.maximum, self.minimum)
         IN  Returns(self, FDiv(FMul(self.multiplier, FSub(reward, self.minimum)),
                                base))

MinMaxRewardScaler_transform(self, reward) ==
    IF ~(~IsNone(self.minimum) /\ ~IsNone(self.maximum))
    THEN Raises(self, "AssertionError")
    ELSE LET base == FSub(self.maximum, self.minimum)
         IN  Returns(self, FDiv(FMul(self.multiplier, FSub(reward, self.minimum)),
                                base))

\* Faulty variant: maximum added back instead of minimum
MinMaxRewardScaler_reverse_transform_maximum(self, reward) ==
    IF ~(~IsNone(self.minimum) /\ ~IsNone(self.maximum))
    THEN Raises(self, "AssertionError")
    ELSE LET base == FSub(self.maximum, self.minimum)
         IN  Returns(self, FAdd(FDiv(FMul(reward, base), self.multiplier),
                                self.maximum))

MinMaxRewardScaler_reverse_transform(self, reward) ==
    IF ~(~IsNone(self.minimum) /\ ~IsNone(self.maximum))
    THEN Raises(self, "AssertionError")
    ELSE LET base == FSub(self.maximum, self.minimum)
         IN  Returns(self, FAdd(FDiv(FMul(reward, base), self.multiplier),
                                self.minimum))

MinMaxRewardScaler_transform_numpy(self, reward) ==
    IF ~(~IsNone(self.minimum) /\ ~IsNone(self.maximum))
    THEN Raises(self, "AssertionError")
    ELSE LET base == FSub(self.maximum, self.minimum)
         IN  Returns(self, FDiv(FMul(self.multiplier, FSub(reward, self.minimum)),
                                base))

\* ---- StandardRewardScaler ----

StandardRewardScaler_fit(self, episodes) ==
    IF ~IsNone(self.mean) /\ ~IsNone(self.std) THEN Returns(self, None)
    ELSE LET rewards == NonFirstRewards(episodes)
         IN  Returns([self EXCEPT !.mean = NpMean(rewards),
                                  !.std = NpStd(rewards)], None)

StandardRewardScaler_transform(self, reward) ==
    IF ~(~IsNone(self.mean) /\ ~IsNone(self.std))
    THEN Raises(self, "AssertionError")
    ELSE LET nonzero_std == FAdd(self.std, self.eps)
         IN  Returns(self, FDiv(FMul(self.multiplier, FSub(reward, self.mean)),
                                nonzero_std))

StandardRewardScaler_reverse_transform(self, reward) ==
    IF ~(~IsNone(self.mean) /\ ~IsNone(self.std))
    THEN Raises(self, "AssertionError")
    ELSE Returns(self, FAdd(FDiv(FMul(reward, FAdd(self.std, self.eps)),
                                 self.multiplier),
                            self.mean))

StandardRewardScaler_transform_numpy(self, reward) ==
    IF ~(~IsNone(self.mean) /\ ~IsNone(self.std))
    THEN Raises(self, "AssertionError")
    ELSE LET nonzero_std == FAdd(self.std, self.eps)
         IN  Returns(self, FDiv(FMul(self.multiplier, FSub(reward, self.mean)),
                                nonzero_std))

\* ---- constructors ----

\* keyword arguments of a constructor call; None is an argument not passed,
\* dataset.given says whether a (non-empty) dataset was passed
Kwargs(dataset, minimum, maximum, mean, std, eps, multiplier, low, high) ==
    [dataset |-> dataset, minimum |-> minimum, maximum |-> maximum,
     mean |-> mean, std |-> std, eps |-> eps, multiplier |-> multiplier,
     low |-> low, high |-> high]

NoDataset == [given |-> FALSE, episodes |-> <<>>]

NoKwargs == Kwargs(NoDataset, None, None, None, None, None, None, None, None)

\* the value of a parameter with a default
OrDefault(x, default) == IF IsNone(x) THEN default ELSE x

\* eps: float = 1e-3, as the format stores it
EpsDefault == RoundRat(1, 1, 1000, 0)

RewardScaler_init(kw) ==
    Returns(Instance("RewardScaler", None, None, None, None, None, None, None, None),
            None)

MultiplyRewardScaler_init(kw) ==
    Returns(Instance("MultiplyRewardScaler", kw.multiplier,
                     None, None, None, None, None, None, None), None)

ClipRewardScaler_init(kw) ==
    Returns(Instance("ClipRewardScaler", OrDefault(kw.multiplier, One),
                     kw.low, kw.high, None, None, None, None, None), None)

\* Faulty variant: each of minimum and maximum stored when it alone is given
MinMaxRewardScaler_init_each(kw) ==
    LET self == Instance("MinMaxRewardScaler", OrDefault(kw.multiplier, One),
                         None, None, None, None, None, None, None)
    IN  IF kw.dataset.given THEN MinMaxRewardScaler_fit(self, kw.dataset.episodes)
        ELSE Returns([self EXCEPT !.minimum = kw.minimum,
                                  !.maximum = kw.maximum], None)

MinMaxRewardScaler_init(kw) ==
    LET self == Instance("MinMaxRewardScaler", OrDefault(kw.multiplier, One),
                         None, None, None, None, None, None, None)
    IN  IF kw.dataset.given THEN MinMaxRewardScaler_fit(self, kw.dataset.episodes)
        ELSE IF ~IsNone(kw.minimum) /\ ~IsNone(kw.maximum)
        THEN Returns([self EXCEPT !.minimum = kw.minimum,
                                  !.maximum = kw.maximum], None)
        ELSE Returns(self, None)

StandardRewardScaler_init(kw) ==
    LET self == Instance("StandardRewardScaler", OrDefault(kw.multiplier, One),
                         None, None, None, None, None, None,
                         OrDefault(kw.eps, EpsDefault))
    IN  IF kw.dataset.given THEN StandardRewardScaler_fit(self, kw.dataset.episodes)
        ELSE IF ~IsNone(kw.mean) /\ ~IsNone(kw.std)
        THEN Returns([self EXCEPT !.mean = kw.mean, !.std = kw.std], None)
        ELSE Returns(self, None)

\* cls(**kwargs)
New(cls, kw) ==
    CASE cls = "RewardScaler" -> RewardScaler_init(kw)
      [] cls = "MultiplyRewardScaler" -> MultiplyRewardScaler_init(kw)
      [] cls = "ClipRewardScaler" -> ClipRewardScaler_init(kw)
      [] cls = "MinMaxRewardScaler" -> MinMaxRewardScaler_init(kw)
      [] cls = "StandardRewardScaler" -> StandardRewardScaler_init(kw)

\* ---- method dispatch on the class of the instance ----

IsMinMax(self) == self.cls = "MinMaxRewardScaler"

fit(self, episodes) ==
    CASE self.cls = "MultiplyRewardScaler" -> MultiplyRewardScaler_fit(self, episodes)
      [] self.cls = "ClipRewardScaler" -> ClipRewardScaler_fit(self, episodes)
      [] IsMinMax(self) -> MinMaxRewardScaler_fit(self, episodes)
      [] self.cls = "StandardRewardScaler" -> StandardRewardScaler_fit(self, episodes)
      [] OTHER -> Raises(self, "NotImplementedError")

\* RewardScaler.fit_with_env, which no class overrides
fit_with_env(self) == Raises(self, "NotImplementedError")

transform(self, reward) ==
    CASE self.cls = "MultiplyRewardScaler" -> MultiplyRewardScaler_transform(self, reward)
      [] self.cls = "ClipRewardScaler" -> ClipRewardScaler_transform(self, reward)
      [] IsMinMax(self) -> MinMaxRewardScaler_transform(self, reward)
      [] self.cls = "StandardRewardScaler" -> StandardRewardScaler_transform(self, reward)
      [] OTHER -> Raises(self, "NotImplementedError")

reverse_transform(self, reward) ==
    CASE self.cls = "MultiplyRewardScaler" ->
             MultiplyRewardScaler_reverse_transform(self, reward)
      [] self.cls = "ClipRewardScaler" -> ClipRewardScaler_reverse_transform(self, reward)
      [] IsMinMax(self) -> MinMaxRewardScaler_reverse_transform(self, reward)
      [] self.cls = "StandardRewardScaler" ->
             StandardRewardScaler_reverse_transform(self, reward)
      [] OTHER -> Raises(self, "NotImplementedError")

transform_numpy(self, reward, strict) ==
    CASE self.cls = "MultiplyRewardScaler" ->
             MultiplyRewardScaler_transform_numpy(self, reward)
      [] self.cls = "ClipRewardScaler" ->
             ClipRewardScaler_transform_numpy(self, reward, strict)
      [] IsMinMax(self) -> MinMaxRewardScaler_transform_numpy(self, reward)
      [] self.cls = "StandardRewardScaler" ->
             StandardRewardScaler_transform_numpy(self, reward)
      [] OTHER -> Raises(self, "NotImplementedError")

get_type(self) == TYPE(self.cls)

\* the dictionary get_params returns, as a function from its keys
get_params(self) ==
    CASE self.cls = "MultiplyRewardScaler" ->
             [key \in {"multiplier"} |-> self[key]]
      [] self.cls = "ClipRewardScaler" ->
             [key \in {"low", "high", "multiplier"} |-> self[key]]
      [] IsMinMax(self) ->
             [key \in {"minimum", "maximum", "multiplier"} |-> self[key]]
      [] self.cls = "StandardRewardScaler" ->
             [key \in {"mean", "std", "eps", "multiplier"} |-> self[key]]

\* ------------------------------------------------------------------------
\* The registry
\* ------------------------------------------------------------------------

\* REWARD_SCALER_LIST = {}
EmptyRegistry == [name \in {} |-> ""]

\* Faulty variant: no assert, an existing key is bound to the new class
register_reward_scaler_overwrite(list, cls) ==
    [list |-> [name \in DOMAIN list \cup {TYPE(cls)} |->
                  IF name = TYPE(cls) THEN cls ELSE list[name]],
     err |-> ""]

\* the dictionary after REWARD_SCALER_LIST[cls.TYPE] = cls, or the failed assert
register_reward_scaler(list, cls) ==
    LET is_registered == TYPE(cls) \in DOMAIN list
    IN  IF is_registered THEN [list |-> list, err |-> "AssertionError"]
        ELSE [list |-> [name \in DOMAIN list \cup {TYPE(cls)} |->
                            IF name = TYPE(cls) THEN cls ELSE list[name]],
              err |-> ""]

\* Faulty variant: the keyword arguments are not forwarded
create_reward_scaler_no_kwargs(list, name, kw) ==
    IF name \notin DOMAIN list THEN Raises(NoScaler, "AssertionError")
    ELSE New(list[name], NoKwargs)

create_reward_scaler(list, name, kw) ==
    IF name \notin DOMAIN list THEN Raises(NoScaler, "AssertionError")
    ELSE New(list[name], kw)

\* Faulty variant: the base class registered in place of StandardRewardScaler
Builtins_base ==
    <<"MultiplyRewardScaler", "ClipRewardScaler", "MinMaxRewardScaler",
      "RewardScaler">>

\* the classes the module registers when it is imported, in order
Builtins ==
    <<"MultiplyRewardScaler", "ClipRewardScaler", "MinMaxRewardScaler",
      "StandardRewardScaler">>

\* ------------------------------------------------------------------------
\* Inputs
\* ------------------------------------------------------------------------

\* the classes handed to register_reward_scaler
Classes ==
    {"RewardScaler", "MultiplyRewardScaler", "ClipRewardScaler",
     "MinMaxRewardScaler", "StandardRewardScaler", "MinMaxSubclass"}

\* the classes that are instantiated
Instantiable == Classes \ {"MinMaxSubclass"}

\* the names handed to create_reward_scaler
Names == {TYPE(cls) : cls \in Classes} \cup {"unknown_name"}

\* rewards at index 0 of an episode, and at the later indices
FirstRewards == {Fin(0, 0), Fin(9, 0)}

LaterRewards == {Fin(-2, 0), Fin(3, 0), Fin(7, 0)}

Episodes ==
    UNION {{<<first>> \o rest : first \in FirstRewards,
                               rest \in [1..(n - 1) -> LaterRewards]} :
           n \in 1..MaxEpisodeLen}

Corpora == UNION {[1..k -> Episodes] : k \in 0..MaxEpisodes}

ExampleCorpus ==
    <<<<Fin(0, 0), Fin(3, 0), Fin(-2, 0)>>, <<Fin(0, 0), Fin(7, 0)>>>>

\* the corpora handed to fit in the life of an instance
FitInputs ==
    {<<>>, ExampleCorpus, <<<<Fin(9, 0)>>>>, <<<<Fin(9, 0), Fin(3, 0)>>>>}

\* the rewards handed to transform, reverse_transform and transform_numpy
RewardInputs ==
    {Fin(-5, 0), Fin(0, 0), Fin(1, -1), Fin(5, 0), Fin(10, 0), Fin(11, 0)}

Multipliers == {None, Zero, Fin(2, 0), Fin(3, 0)}

\* the dataset argument of a constructor call: none, or a non-empty dataset
DatasetArgs ==
    {NoDataset} \cup {[given |-> TRUE, episodes |-> c] :
                          c \in {ExampleCorpus, <<<<Fin(9, 0)>>>>}}

\* the keyword arguments each constructor is called with
KwargsOf(cls) ==
    CASE cls = "MultiplyRewardScaler" ->
             {Kwargs(NoDataset, None, None, None, None, None, mu, None, None) :
                  mu \in Multipliers}
      [] cls = "ClipRewardScaler" ->
             {Kwargs(NoDataset, None, None, None, None, None, mu, lo, hi) :
                  mu \in Multipliers,
                  lo \in {None, Fin(-1, 0), Fin(1, 0)},
                  hi \in {None, Fin(-1, 0), Fin(1, 0)}}
      [] cls = "MinMaxRewardScaler" ->
             {Kwargs(ds, mn, mx, None, None, None, mu, None, None) :
                  ds \in DatasetArgs, mu \in Multipliers,
                  mn \in {None, Fin(0, 0)},
                  mx \in {None, Fin(1, 0), Fin(10, 0)}}
      [] cls = "StandardRewardScaler" ->
             {Kwargs(ds, None, None, mean, std, eps, mu, None, None) :
                  ds \in DatasetArgs, mu \in Multipliers,
                  mean \in {None, Fin(2, 0)},
                  std \in {None, Fin(3, 0)},
                  eps \in {None, Zero}}
      [] OTHER -> {NoKwargs}

\* ------------------------------------------------------------------------
\* State
\* ------------------------------------------------------------------------

VARIABLES
    \* the module-level dictionary: registered TYPE -> class
    REWARD_SCALER_LIST,
    \* the module-level statement to run next: 1..4 are the four
    \* register_reward_scaler calls at the end of the module, 5 is "imported"
    pc,
    \* how often each class has been stored in REWARD_SCALER_LIST
    registered,
    \* the scaler instance of the experiment (NoScaler before it is built)
    scaler,
    \* the corpus most recently handed to fit
    dataset,
    \* the most recent call and what it did
    last

vars == <<REWARD_SCALER_LIST, pc, registered, scaler, dataset, last>>

Imported == Len(Builtins) + 1

NoParams == [key \in {} |-> None]

\* the record of a call: op and key name the call (key is the class of a
\* register call, the name of a create call), kw its keyword arguments, arg
\* its reward argument, src the reward whose transform arg is (None if arg is
\* not the result of a transform), and err, warned, ret, params its effects
Call(op, key, kw, arg, src, err, warned, ret, params) ==
    [op |-> op, key |-> key, kw |-> kw, arg |-> arg, src |-> src, err |-> err,
     warned |-> warned, ret |-> ret, params |-> params]

MethodCall(op, arg, src, out) ==
    Call(op, "", NoKwargs, arg, src, out.err, out.warned, out.ret, NoParams)

Init ==
    /\ REWARD_SCALER_LIST = EmptyRegistry
    /\ pc = 1
    /\ registered = [cls \in Classes |-> 0]
    /\ scaler = NoScaler
    /\ dataset = <<>>
    /\ last = Call("start", "", NoKwargs, None, None, "", FALSE, None, NoParams)

\* ------------------------------------------------------------------------
\* Actions
\* ------------------------------------------------------------------------

\* a call register_reward_scaler(cls)
RegisterCall(op, cls) ==
    LET out == register_reward_scaler(REWARD_SCALER_LIST, cls)
    IN  /\ REWARD_SCALER_LIST' = out.list
        /\ registered' = IF out.err = "" THEN [registered EXCEPT ![cls] = @ + 1]
                         ELSE registered
        /\ last' = Call(op, cls, NoKwargs, None, None, out.err, FALSE, None, NoParams)

\* the module-level statements register_reward_scaler(...), in order; a
\* failed assert would end the import
ModuleInit ==
    /\ pc < Imported
    /\ RegisterCall("import", Builtins[pc])
    /\ pc' = IF last'.err = "" THEN pc + 1 ELSE 0
    /\ UNCHANGED <<scaler, dataset>>

\* a later call of register_reward_scaler by the user of the module
Register ==
    /\ pc = Imported
    /\ \E cls \in Classes : RegisterCall("register", cls)
    /\ UNCHANGED <<pc, scaler, dataset>>

\* the corpus a constructor call hands to fit, if it does
FitArg(kw) == IF kw.dataset.given THEN kw.dataset.episodes ELSE dataset

\* create_reward_scaler(name, **kw)
Create ==
    /\ pc = Imported
    /\ scaler = NoScaler
    /\ \E name \in Names :
         \E kw \in (IF name \in DOMAIN REWARD_SCALER_LIST
                    THEN KwargsOf(REWARD_SCALER_LIST[name]) ELSE {NoKwargs}) :
           LET out == create_reward_scaler(REWARD_SCALER_LIST, name, kw)
           IN  /\ scaler' = IF out.err = "" THEN out.self ELSE NoScaler
               /\ dataset' = IF name \in {"min_max", "standard"}
                             THEN FitArg(kw) ELSE dataset
               /\ last' = Call("create", name, kw, None, None, out.err,
                               out.warned, None, NoParams)
    /\ UNCHANGED <<REWARD_SCALER_LIST, pc, registered>>

\* cls(**kw), called directly
Construct ==
    /\ pc = Imported
    /\ scaler = NoScaler
    /\ \E cls \in Instantiable :
         \E kw \in KwargsOf(cls) :
           LET out == New(cls, kw)
           IN  /\ scaler' = IF out.err = "" THEN out.self ELSE NoScaler
               /\ dataset' = IF cls \in {"MinMaxRewardScaler", "StandardRewardScaler"}
                             THEN FitArg(kw) ELSE dataset
               /\ last' = Call("new", cls, kw, None, None, out.err, out.warned,
                               None, NoParams)
    /\ UNCHANGED <<REWARD_SCALER_LIST, pc, registered>>

\* scaler.fit(episodes)
FitWith(episodes) ==
    /\ scaler # NoScaler
    /\ LET out == fit(scaler, episodes)
       IN  /\ scaler' = out.self
           /\ last' = MethodCall("fit", None, None, out)
    /\ dataset' = episodes
    /\ UNCHANGED <<REWARD_SCALER_LIST, pc, registered>>

Fit == \E episodes \in FitInputs : FitWith(episodes)

\* scaler.fit_with_env(env)
FitWithEnv ==
    /\ scaler # NoScaler
    /\ LET out == fit_with_env(scaler)
       IN  /\ scaler' = out.self
           /\ last' = MethodCall("fit_with_env", None, None, out)
    /\ UNCHANGED <<REWARD_SCALER_LIST, pc, registered, dataset>>

\* scaler.transform(reward)
Transform ==
    /\ scaler # NoScaler
    /\ \E reward \in RewardInputs :
         LET out == transform(scaler, reward)
         IN  /\ scaler' = out.self
             /\ last' = MethodCall("transform", reward, None, out)
    /\ UNCHANGED <<REWARD_SCALER_LIST, pc, registered, dataset>>

\* scaler.transform_numpy(reward)
TransformNumpy ==
    /\ scaler # NoScaler
    /\ \E reward \in RewardInputs, strict \in BOOLEAN :
         LET out == transform_numpy(scaler, reward, strict)
         IN  /\ scaler' = out.self
             /\ last' = MethodCall("transform_numpy", reward, None, out)
    /\ UNCHANGED <<REWARD_SCALER_LIST, pc, registered, dataset>>

\* scaler.reverse_transform(reward)
ReverseTransform ==
    /\ scaler # NoScaler
    /\ \E reward \in RewardInputs :
         LET out == reverse_transform(scaler, reward)
         IN  /\ scaler' = out.self
             /\ last' = MethodCall("reverse_transform", reward, None, out)
    /\ UNCHANGED <<REWARD_SCALER_LIST, pc, registered, dataset>>

\* scaler.reverse_transform(t), t the reward transform has just returned
ReverseTransformed ==
    /\ scaler # NoScaler
    /\ last.op \in {"transform", "transform_numpy"}
    /\ last.err = ""
    /\ LET out == reverse_transform(scaler, last.ret)
       IN  /\ scaler' = out.self
           /\ last' = MethodCall("reverse_transform", last.ret, last.arg, out)
    /\ UNCHANGED <<REWARD_SCALER_LIST, pc, registered, dataset>>

\* scaler.get_params()
GetParams ==
    /\ scaler # NoScaler
    /\ last' = IF scaler.cls = "RewardScaler"
               THEN Call("get_params", "", NoKwargs, None, None,
                         "NotImplementedError", FALSE, None, NoParams)
               ELSE Call("get_params", "", NoKwargs, None, None, "", FALSE, None,
                         get_params(scaler))
    /\ UNCHANGED <<REWARD_SCALER_LIST, pc, registered, scaler, dataset>>

Next ==
    \/ ModuleInit
    \/ Register
    \/ Create
    \/ Construct
    \/ Fit
    \/ FitWithEnv
    \/ Transform
    \/ TransformNumpy
    \/ ReverseTransform
    \/ ReverseTransformed
    \/ GetParams

Spec == Init /\ [][Next]_vars

\* ------------------------------------------------------------------------
\* fit as a function of the corpus: an unfitted Min-Max or Standard scaler of
\* an imported module is fitted on any corpus within the bounds
\* ------------------------------------------------------------------------

RECURSIVE RegisterAll(_, _)
RegisterAll(list, classes) ==
    IF classes = <<>> THEN list
    ELSE RegisterAll(register_reward_scaler(list, Head(classes)).list, Tail(classes))

InitFit ==
    /\ REWARD_SCALER_LIST = RegisterAll(EmptyRegistry, Builtins)
    /\ pc = Imported
    /\ registered = [cls \in Classes |->
                        IF \E i \in DOMAIN Builtins : Builtins[i] = cls THEN 1 ELSE 0]
    /\ \E cls \in {"MinMaxRewardScaler", "StandardRewardScaler"} :
         /\ scaler = New(cls, NoKwargs).self
         /\ last = Call("new", cls, NoKwargs, None, None, "", FALSE, None, NoParams)
    /\ dataset \in Corpora

\* scaler.fit(dataset.episodes)
FitDataset == FitWith(dataset)

NextFit == FitDataset

SpecFit == InitFit /\ [][NextFit]_vars

\* ------------------------------------------------------------------------
\* Properties
\* ------------------------------------------------------------------------

TransformOps == {"transform", "reverse_transform", "transform_numpy"}

\* minimum and maximum (mean and std) are both present
Fitted(self) ==
    \/ self.cls = "MinMaxRewardScaler" /\ ~IsNone(self.minimum) /\ ~IsNone(self.maximum)
    \/ self.cls = "StandardRewardScaler" /\ ~IsNone(self.mean) /\ ~IsNone(self.std)

\* C1: once a Min-Max or Standard scaler has its parameters, no call (fit
\* with any corpus, fit_with_env, transform, reverse_transform,
\* transform_numpy, get_params) changes what get_params returns
C1_FitIsNoOpOnceFitted ==
    [][Fitted(scaler) => get_params(scaler') = get_params(scaler)]_vars

\* C1 witness: fit was called with the example corpus (whose non-first
\* rewards span -2..7) on an instance holding minimum 0 and maximum 10
C1_Witness ==
    /\ last.op = "fit"
    /\ last.err = ""
    /\ dataset = ExampleCorpus
    /\ scaler.cls = "MinMaxRewardScaler"
    /\ scaler.minimum = Fin(0, 0)
    /\ scaler.maximum = Fin(10, 0)

\* C2: while minimum or maximum (mean or std) is unset, transform,
\* reverse_transform and transform_numpy fail with an AssertionError and
\* return nothing
C2_TransformAssertsWhenUnset ==
    (/\ last.op \in TransformOps
     /\ scaler.cls \in {"MinMaxRewardScaler", "StandardRewardScaler"}
     /\ ~Fitted(scaler))
        => last.err = "AssertionError" /\ IsNone(last.ret)

C2_Witness ==
    /\ last.op = "transform"
    /\ scaler.cls = "MinMaxRewardScaler"
    /\ IsNone(scaler.minimum)
    /\ last.err = "AssertionError"

\* C3: a register_reward_scaler call whose TYPE is already a key fails and
\* leaves the registry unchanged, and no step removes a key or rebinds it
C3_RegistryOnlyGrows ==
    [][/\ \A name \in DOMAIN REWARD_SCALER_LIST :
            /\ name \in DOMAIN REWARD_SCALER_LIST'
            /\ REWARD_SCALER_LIST'[name] = REWARD_SCALER_LIST[name]
       /\ (/\ last'.op \in {"register", "import"}
           /\ TYPE(last'.key) \in DOMAIN REWARD_SCALER_LIST)
            => /\ last'.err = "AssertionError"
               /\ REWARD_SCALER_LIST' = REWARD_SCALER_LIST]_vars

\* C3 witness: a subclass that inherits TYPE "min_max" was refused and the
\* key still names MinMaxRewardScaler
C3_Witness ==
    /\ last.op = "register"
    /\ last.key = "MinMaxSubclass"
    /\ last.err = "AssertionError"
    /\ REWARD_SCALER_LIST["min_max"] = "MinMaxRewardScaler"

\* the default of a constructor parameter
DefaultOf(cls, key) ==
    CASE key = "multiplier" /\ cls # "MultiplyRewardScaler" -> One
      [] key = "eps" -> EpsDefault
      [] OTHER -> None

\* C4 as stated: create fails on an unknown name; on a known name it
\* returns an instance of the registered class whose get_type() is the name
\* and whose get_params() shows every forwarded value and the default of
\* every other parameter; the registry is unchanged either way.  (Read in
\* the claim's favour: calls that pass a dataset, and the base class, whose
\* get_params is not implemented, are left out.)
C4_Original ==
    [][last'.op = "create" =>
        /\ REWARD_SCALER_LIST' = REWARD_SCALER_LIST
        /\ IF last'.key \notin DOMAIN REWARD_SCALER_LIST
           THEN last'.err # "" /\ scaler' = NoScaler
           ELSE ~last'.kw.dataset.given =>
                /\ last'.err = ""
                /\ scaler'.cls = REWARD_SCALER_LIST[last'.key]
                /\ get_type(scaler') = last'.key
                /\ scaler'.cls # "RewardScaler" =>
                     \A key \in DOMAIN get_params(scaler') :
                         get_params(scaler')[key] =
                             OrDefault(last'.kw[key],
                                       DefaultOf(scaler'.cls, key))]_vars

\* the two parameters a Min-Max or Standard scaler keeps or drops together
PairOf(cls) ==
    CASE cls = "MinMaxRewardScaler" -> {"minimum", "maximum"}
      [] cls = "StandardRewardScaler" -> {"mean", "std"}
      [] OTHER -> {}

\* the rewards at index 1 and later of the episodes of a corpus
LaterRewardsOf(episodes) ==
    UNION {{episodes[i][j] : j \in 2..Len(episodes[i])} : i \in DOMAIN episodes}

\* C4 as amended: create fails on an unknown name; on a known name it calls
\* the registered class with the given parameters, which fails only when a
\* dataset without a non-first reward is given to Min-Max; the instance it
\* returns has get_type() equal to the name, and get_params() (which the
\* base class, registrable as "none", does not implement) shows the
\* forwarded multiplier, eps, low and high with defaults for those not given,
\* while minimum and maximum (mean and std) are shown as forwarded only when
\* both are forwarded and no dataset is, are the fitted values when a dataset
\* is given, and are both unset otherwise; the registry is unchanged
C4_Create ==
    [][last'.op = "create" =>
        /\ REWARD_SCALER_LIST' = REWARD_SCALER_LIST
        /\ IF last'.key \notin DOMAIN REWARD_SCALER_LIST
           THEN last'.err = "AssertionError" /\ scaler' = NoScaler
           ELSE LET cls == REWARD_SCALER_LIST[last'.key]
                    kw == last'.kw
                    both == \A key \in PairOf(cls) : ~IsNone(kw[key])
                IN  /\ last'.err # "" <=>
                         /\ cls = "MinMaxRewardScaler"
                         /\ kw.dataset.given
                         /\ LaterRewardsOf(kw.dataset.episodes) = {}
                    /\ last'.err # "" => scaler' = NoScaler
                    /\ last'.err = "" =>
                         /\ scaler'.cls = cls
                         /\ get_type(scaler') = last'.key
                         /\ cls # "RewardScaler" =>
                              \A key \in DOMAIN get_params(scaler') :
                                LET shown == get_params(scaler')[key] IN
                                IF key \notin PairOf(cls)
                                THEN shown = OrDefault(kw[key], DefaultOf(cls, key))
                                ELSE IF kw.dataset.given THEN ~IsNone(shown)
                                ELSE IF both THEN shown = kw[key]
                                ELSE IsNone(shown)]_vars

\* C4 witness: create("min_max", minimum=0.0, maximum=1.0) gave
\* {minimum: 0.0, maximum: 1.0, multiplier: 1.0}
C4_Witness ==
    /\ last.op = "create"
    /\ last.key = "min_max"
    /\ last.kw = Kwargs(NoDataset, Fin(0, 0), Fin(1, 0), None, None, None, None,
                        None, None)
    /\ get_params(scaler) =
           [key \in {"minimum", "maximum", "multiplier"} |->
               CASE key = "minimum" -> Fin(0, 0)
                 [] key = "maximum" -> Fin(1, 0)
                 [] key = "multiplier" -> Fin(1, 0)]

\* the state the import of the module ends in
JustImported == pc = Imported /\ last.op = "import"

\* C5 as stated: when the module is imported the registry has the keys
\* "none", "multiply", "clip", "min_max" and "standard"
C5_Original ==
    JustImported =>
        {"none", "multiply", "clip", "min_max", "standard"}
            \subseteq DOMAIN REWARD_SCALER_LIST

\* C5 as amended: when the module is imported the registry has exactly the
\* keys "multiply", "clip", "min_max" and "standard" ("none", the TYPE of
\* the base class, is not a key), each bound to its class and each class
\* stored exactly once; create is called only after that, and the four
\* entries are there whenever it is
C5_BuiltinsRegistered ==
    /\ JustImported =>
         /\ DOMAIN REWARD_SCALER_LIST = {"multiply", "clip", "min_max", "standard"}
         /\ registered["RewardScaler"] = 0
    /\ last.op \in {"create", "new"} => pc = Imported
    /\ pc = Imported =>
         \A cls \in {"MultiplyRewardScaler", "ClipRewardScaler",
                     "MinMaxRewardScaler", "StandardRewardScaler"} :
             /\ TYPE(cls) \in DOMAIN REWARD_SCALER_LIST
             /\ REWARD_SCALER_LIST[TYPE(cls)] = cls
             /\ registered[cls] = 1

C5_Witness == JustImported /\ DOMAIN REWARD_SCALER_LIST # {}

\* the rewards at index 1 and later, episode after episode
RECURSIVE Flat(_, _)
Flat(episodes, k) ==
    IF k = 0 THEN <<>>
    ELSE Flat(episodes, k - 1) \o SubSeq(episodes[k], 2, Len(episodes[k]))

\* the corpus with the reward at index 0 of every episode replaced by first
WithFirst(episodes, first) ==
    [i \in DOMAIN episodes |->
        [j \in DOMAIN episodes[i] |-> IF j = 1 THEN first ELSE episodes[i][j]]]

\* C6: fit on an unfitted Min-Max scaler sets minimum and maximum to the
\* smallest and the largest reward found at index 1 or later of an episode
\* (and raises when there is none); fit on an unfitted Standard scaler sets
\* mean and std to np.mean and np.std of those same rewards, so that
\* replacing the rewards at index 0 changes neither
C6_FitUsesNonFirstRewards ==
    last.op = "fit" =>
        LET later == LaterRewardsOf(dataset) IN
        /\ scaler.cls = "MinMaxRewardScaler" =>
             /\ last.err = "" <=> later # {}
             /\ last.err = "" =>
                  /\ scaler.minimum \in later
                  /\ scaler.maximum \in later
                  /\ \A x \in later :
                       ~FLess(x, scaler.minimum) /\ ~FLess(scaler.maximum, x)
        /\ scaler.cls = "StandardRewardScaler" =>
             /\ last.err = ""
             /\ scaler.mean = NpMean(Flat(dataset, Len(dataset)))
             /\ scaler.std = NpStd(Flat(dataset, Len(dataset)))
             /\ \A first \in FirstRewards :
                  LET other == StandardRewardScaler_fit(
                                   New("StandardRewardScaler", NoKwargs).self,
                                   WithFirst(dataset, first)).self
                  IN  other.mean = scaler.mean /\ other.std = scaler.std

\* C6 witness: episodes [0, 3, -2] and [0, 7] gave minimum -2 and maximum 7
C6_Witness ==
    /\ last.op = "fit"
    /\ dataset = ExampleCorpus
    /\ scaler.cls = "MinMaxRewardScaler"
    /\ scaler.minimum = Fin(-2, 0)
    /\ scaler.maximum = Fin(7, 0)

\* a Multiply scaler without multiplier, a Clip scaler without low and high
Unconfigured(self) ==
    \/ self.cls = "MultiplyRewardScaler" /\ IsNone(self.multiplier)
    \/ self.cls = "ClipRewardScaler" /\ IsNone(self.low) /\ IsNone(self.high)

\* C7: fit on a Multiply or Clip scaler never fails and changes no
\* attribute; it warns exactly when the instance is unconfigured; and a
\* Multiply scaler without multiplier fails in transform, reverse_transform
\* and transform_numpy, whether or not fit was called
C7_FitOnlyWarns ==
    [][/\ (/\ scaler.cls \in {"MultiplyRewardScaler", "ClipRewardScaler"}
           /\ last'.op = "fit")
            => /\ scaler' = scaler
               /\ last'.err = ""
               /\ last'.warned <=> Unconfigured(scaler)
       /\ (/\ scaler.cls = "MultiplyRewardScaler"
           /\ IsNone(scaler.multiplier)
           /\ last'.op \in TransformOps)
            => last'.err # "" /\ IsNone(last'.ret)]_vars

\* C7 witness: fit warned on a Multiply scaler that still has no multiplier
C7_Witness ==
    /\ last.op = "fit"
    /\ last.warned
    /\ last.err = ""
    /\ scaler.cls = "MultiplyRewardScaler"
    /\ IsNone(scaler.multiplier)

NonZero(x) == IsFin(x) /\ ~IsZero(x)

\* finite parameters with a nonzero multiplier, maximum # minimum and
\* std + eps # 0
NonDegenerate(self) ==
    /\ NonZero(self.multiplier)
    /\ CASE self.cls = "MultiplyRewardScaler" -> TRUE
         [] self.cls = "MinMaxRewardScaler" ->
                /\ IsFin(self.minimum)
                /\ IsFin(self.maximum)
                /\ self.minimum # self.maximum
         [] self.cls = "StandardRewardScaler" ->
                /\ IsFin(self.mean)
                /\ IsFin(self.std)
                /\ NonZero(FAdd(self.std, self.eps))
         [] OTHER -> FALSE

\* reverse_transform has just been applied to transform(last.src)
RoundTripDone == last.op = "reverse_transform" /\ ~IsNone(last.src)

\* C8 as stated: for Multiply, Min-Max and Standard scalers with
\* non-degenerate parameters, reverse_transform(transform(r)) = r
C8_Original ==
    (RoundTripDone /\ NonDegenerate(scaler))
        => last.err = "" /\ last.ret = last.src

\* no step of transform(reward) rounds: the difference, the product and the
\* quotient it computes are the exact ones
TransformIsExact(self, reward) ==
    CASE self.cls = "MultiplyRewardScaler" ->
             Representable(ExactMul(self.multiplier, reward))
      [] self.cls = "MinMaxRewardScaler" ->
             LET diff == ExactAdd(reward, Neg(self.minimum))
                 base == ExactAdd(self.maximum, Neg(self.minimum))
                 prod == ExactMul(self.multiplier, diff)
             IN  /\ Representable(diff)
                 /\ Representable(base)
                 /\ Representable(prod)
                 /\ ExactMul(FDiv(prod, base), base) = prod
      [] self.cls = "StandardRewardScaler" ->
             LET diff == ExactAdd(reward, Neg(self.mean))
                 nonzero_std == ExactAdd(self.std, self.eps)
                 prod == ExactMul(self.multiplier, diff)
             IN  /\ Representable(diff)
                 /\ Representable(nonzero_std)
                 /\ Representable(prod)
                 /\ ExactMul(FDiv(prod, nonzero_std), nonzero_std) = prod

\* C8 as amended: for Multiply, Min-Max and Standard scalers with
\* non-degenerate parameters, reverse_transform(transform(r)) = r whenever
\* transform(r) is computed without rounding; when a step of it rounds, the
\* result can differ from r by the rounding error
C8_RoundTripWhenExact ==
    (RoundTripDone /\ NonDegenerate(scaler) /\ TransformIsExact(scaler, last.src))
        => last.err = "" /\ last.ret = last.src

\* C8 witness: minimum 0, maximum 10, multiplier 1 took 5 to 0.5 and back
C8_Witness ==
    /\ RoundTripDone
    /\ scaler.cls = "MinMaxRewardScaler"
    /\ scaler.minimum = Fin(0, 0)
    /\ scaler.maximum = Fin(10, 0)
    /\ scaler.multiplier = One
    /\ last.arg = Fin(1, -1)
    /\ last.src = Fin(5, 0)
    /\ last.ret = Fin(5, 0)

\* low <= reward <= high, an absent bound not constraining
InBounds(reward, low, high) ==
    /\ IsNone(low) \/ ~FLess(reward, low)
    /\ IsNone(high) \/ ~FLess(high, reward)

\* low and high leave no reward in bounds
CrossedBounds(low, high) == ~IsNone(low) /\ ~IsNone(high) /\ FLess(high, low)

\* clamp(reward, low, high); high where low > high
Clamped(reward, low, high) ==
    IF CrossedBounds(low, high) THEN high
    ELSE IF InBounds(reward, low, high) THEN reward
    ELSE IF ~IsNone(low) /\ FLess(reward, low) THEN low
    ELSE high

\* C9 as stated: transform(r) = multiplier * clamp(r, low, high), an absent
\* bound not clamping; reverse_transform only divides by the multiplier; so
\* for a nonzero multiplier reverse_transform(transform(r)) = clamp(r, low,
\* high), which differs from r exactly when r is out of bounds.  (Read in
\* the claim's favour: instances with neither bound or with low > high are
\* left out.)
C9_Original ==
    (/\ scaler.cls = "ClipRewardScaler"
     /\ ~Unconfigured(scaler)
     /\ ~CrossedBounds(scaler.low, scaler.high))
        => /\ last.op \in {"transform", "transform_numpy"} =>
                /\ last.err = ""
                /\ last.ret = FMul(scaler.multiplier,
                                   Clamped(last.arg, scaler.low, scaler.high))
           /\ last.op = "reverse_transform" =>
                last.ret = FDiv(last.arg, scaler.multiplier)
           /\ (RoundTripDone /\ NonZero(scaler.multiplier)) =>
                /\ last.ret = Clamped(last.src, scaler.low, scaler.high)
                /\ last.ret # last.src <=>
                       ~InBounds(last.src, scaler.low, scaler.high)

\* C9 as amended: with at least one bound set, transform(r) and
\* transform_numpy(r) are multiplier * clamp(r, low, high), an absent bound
\* not clamping and clamp giving high when low > high; with neither bound
\* set transform raises (transform_numpy raises or returns multiplier * r,
\* by the numpy version); reverse_transform only divides by the multiplier;
\* so for a nonzero multiplier reverse_transform(transform(r)) =
\* clamp(r, low, high) whenever multiplier * clamp(r, low, high) is computed
\* without rounding (otherwise it can differ by the rounding error), and
\* for low <= high that differs from r exactly when r is out of bounds
C9_Clip ==
    scaler.cls = "ClipRewardScaler" =>
        LET clamped == Clamped(last.arg, scaler.low, scaler.high) IN
        /\ (last.op \in {"transform", "transform_numpy"} /\ ~Unconfigured(scaler)) =>
             /\ last.err = ""
             /\ last.ret = FMul(scaler.multiplier, clamped)
        /\ (last.op = "transform" /\ Unconfigured(scaler)) => last.err # ""
        /\ (last.op = "transform_numpy" /\ Unconfigured(scaler)) =>
             last.err # "" \/ last.ret = FMul(scaler.multiplier, last.arg)
        /\ (/\ last.op = "transform"
            /\ scaler.low = Fin(-1, 0)
            /\ scaler.high = Fin(1, 0)
            /\ scaler.multiplier = Fin(2, 0)) =>
             /\ last.arg = Fin(5, 0) => last.ret = Fin(2, 0)
             /\ last.arg = Fin(-5, 0) => last.ret = Fin(-2, 0)
             /\ last.arg = Fin(1, -1) => last.ret = Fin(1, 0)
        /\ last.op = "reverse_transform" =>
             last.err = "" /\ last.ret = FDiv(last.arg, scaler.multiplier)
        /\ (/\ RoundTripDone
            /\ NonZero(scaler.multiplier)
            /\ Representable(ExactMul(scaler.multiplier,
                                      Clamped(last.src, scaler.low, scaler.high)))) =>
             /\ last.ret = Clamped(last.src, scaler.low, scaler.high)
             /\ ~CrossedBounds(scaler.low, scaler.high) =>
                  (last.ret # last.src <=>
                       ~InBounds(last.src, scaler.low, scaler.high))

\* C9 witness: low -1, high 1, multiplier 2 took 5 to 2, and
\* reverse_transform took 2 to 1, the clamped reward
C9_Witness ==
    /\ RoundTripDone
    /\ scaler.cls = "ClipRewardScaler"
    /\ scaler.low = Fin(-1, 0)
    /\ scaler.high = Fin(1, 0)
    /\ scaler.multiplier = Fin(2, 0)
    /\ last.src = Fin(5, 0)
    /\ last.arg = Fin(2, 0)
    /\ last.ret = Fin(1, 0)

\* minimum and maximum are both set or both unset, and so are mean and std
PairsTogether(self) ==
    /\ IsNone(self.minimum) <=> IsNone(self.maximum)
    /\ IsNone(self.mean) <=> IsNone(self.std)

\* a constructor call that passes no dataset and exactly one of the pair
OneOfPair(call) ==
    /\ call.op \in {"new", "create"}
    /\ call.err = ""
    /\ ~call.kw.dataset.given
    /\ \/ IsNone(call.kw.minimum) # IsNone(call.kw.maximum)
       \/ IsNone(call.kw.mean) # IsNone(call.kw.std)

\* C10: minimum and maximum (mean and std) are always both set or both
\* unset: a constructor given only one of them drops it, a fit that raises
\* leaves both unset, a fit that returns leaves both set; and a fit right
\* after such a constructor call puts the data-derived values in both
C10_PairSetTogether ==
    [][/\ PairsTogether(scaler')
       /\ OneOfPair(last') => ~Fitted(scaler')
       /\ (/\ last'.op = "fit"
           /\ scaler.cls \in {"MinMaxRewardScaler", "StandardRewardScaler"})
            => (last'.err = "" <=> Fitted(scaler'))
       /\ (/\ OneOfPair(last)
           /\ last'.op = "fit"
           /\ last'.err = ""
           /\ scaler.cls = "MinMaxRewardScaler")
            => /\ scaler'.minimum \in LaterRewardsOf(dataset')
               /\ scaler'.maximum \in LaterRewardsOf(dataset')]_vars

\* C10 witness: MinMaxRewardScaler(minimum=0.0) holds neither minimum nor
\* maximum
C10_Witness ==
    /\ last.op = "new"
    /\ last.key = "MinMaxRewardScaler"
    /\ ~last.kw.dataset.given
    /\ last.kw.minimum = Fin(0, 0)
    /\ IsNone(last.kw.maximum)
    /\ IsNone(scaler.minimum)
    /\ IsNone(scaler.maximum)

=============================================================================
